---- MODULE Spec2Model ----
(***************************************************************************)
(* A model of the CFO Helper backend (src/main.py) and of the forecast     *)
(* projector of its dashboard (src/app.py).                                *)
(*                                                                         *)
(*   Spec          the FastAPI process: the usage counters, the five       *)
(*                 request handlers and the event loop that runs them      *)
(*   SpecSim       POST /simulate on bounded baselines and scenarios        *)
(*   SpecForecast  build_forecast_df on bounded metrics                     *)
(***************************************************************************)
EXTENDS Integers, Sequences, FiniteSets, TLC

(***************************************************************************)
(* Python floats.  simulate_scenario mixes int and float arithmetic, so    *)
(* the arithmetic is modelled as IEEE-754 binary64 with round-to-nearest-  *)
(* even.  A natural number wider than TLC's integers is a sequence of      *)
(* limbs in base 2^LimbBits, least significant limb first, without a zero  *)
(* top limb; a finite float is                                             *)
(*     [k |-> "fin", s |-> sign, m |-> limbs, e |-> exponent]               *)
(* of value s * m * 2^e, where m is <<>> (zero) or has exactly MantBits    *)
(* bits.  The exponent range is not modelled (no finite value of the model  *)
(* comes near it); a non-finite float is [k |-> "inf"] or [k |-> "nan"].   *)
(***************************************************************************)
MantBits == 53

\* the element of a one-element set: The({e(x) : x \in {d}}) is
\* LET x == d IN e(x) with d evaluated once
The(S) == CHOOSE x \in S : TRUE
LimbBits == 10
Base     == 2 ^ LimbBits

RECURSIVE Limbs(_)
Limbs(n) == IF n = 0 THEN <<>> ELSE <<n % Base>> \o Limbs(n \div Base)

RECURSIVE LimbsToInt(_)
LimbsToInt(b) == IF b = <<>> THEN 0 ELSE Head(b) + Base * LimbsToInt(Tail(b))

Zeros(n) == [i \in 1..n |-> 0]

\* b without the zero limbs at its most significant end
Trim(b) ==
    LET nz == {i \in 1..Len(b) : b[i] # 0}
    IN  IF nz = {} THEN <<>>
        ELSE SubSeq(b, 1, CHOOSE i \in nz : \A j \in nz : j <= i)

\* the number of bits of a trimmed b
BitLen(b) ==
    IF b = <<>> THEN 0
    ELSE (Len(b) - 1) * LimbBits
         + (CHOOSE k \in 1..LimbBits : 2 ^ (k - 1) <= b[Len(b)] /\ b[Len(b)] < 2 ^ k)

\* bit i (from 0) of b
Bit(b, i) ==
    IF i \div LimbBits + 1 > Len(b) THEN 0
    ELSE (b[i \div LimbBits + 1] \div 2 ^ (i % LimbBits)) % 2

\* whether b has a bit set below bit i
AnyBelow(b, i) ==
    \/ \E j \in 1..Len(b) : j <= i \div LimbBits /\ b[j] # 0
    \/ /\ i \div LimbBits + 1 <= Len(b)
       /\ b[i \div LimbBits + 1] % 2 ^ (i % LimbBits) # 0

\* a + b + c, c a carry
RECURSIVE AddLimbs(_, _, _)
AddLimbs(a, b, c) ==
    IF a = <<>> /\ b = <<>> THEN (IF c = 0 THEN <<>> ELSE <<c>>)
    ELSE LET x == IF a = <<>> THEN 0 ELSE Head(a)
             y == IF b = <<>> THEN 0 ELSE Head(b)
             v == x + y + c
         IN  <<v % Base>> \o AddLimbs(IF a = <<>> THEN <<>> ELSE Tail(a),
                                       IF b = <<>> THEN <<>> ELSE Tail(b), v \div Base)

\* a - b - c for a >= b + c, c a borrow (untrimmed)
RECURSIVE SubLimbs(_, _, _)
SubLimbs(a, b, c) ==
    IF a = <<>> THEN <<>>
    ELSE LET y == IF b = <<>> THEN 0 ELSE Head(b)
             v == Head(a) - y - c
         IN  <<v % Base>> \o SubLimbs(Tail(a), IF b = <<>> THEN <<>> ELSE Tail(b),
                                       IF v < 0 THEN 1 ELSE 0)

\* a < b, for trimmed a and b
LessLimbs(a, b) ==
    IF Len(a) # Len(b) THEN Len(a) < Len(b)
    ELSE LET d == {i \in 1..Len(a) : a[i] # b[i]}
         IN  d # {} /\ LET top == CHOOSE i \in d : \A j \in d : j <= i
                       IN  a[top] < b[top]

\* b * k + c for a natural k below 2^20
RECURSIVE MulSmall(_, _, _)
MulSmall(b, k, c) ==
    IF b = <<>> THEN Limbs(c)
    ELSE LET v == Head(b) * k + c
         IN  <<v % Base>> \o MulSmall(Tail(b), k, v \div Base)

\* quotient (untrimmed) and remainder of b by a natural d, 0 < d < 2^20
RECURSIVE DivSmall(_, _)
DivSmall(b, d) ==
    IF b = <<>> THEN [q |-> <<>>, r |-> 0]
    ELSE The({[q |-> <<(Base * hi.r + Head(b)) \div d>> \o hi.q,
               r |-> (Base * hi.r + Head(b)) % d] : hi \in {DivSmall(Tail(b), d)}})

\* b * 2^n
ShiftLeft(b, n) ==
    IF b = <<>> THEN <<>>
    ELSE Zeros(n \div LimbBits) \o MulSmall(b, 2 ^ (n % LimbBits), 0)

\* floor(b / 2^n)
ShiftRight(b, n) ==
    IF n \div LimbBits >= Len(b) THEN <<>>
    ELSE Trim(DivSmall(SubSeq(b, n \div LimbBits + 1, Len(b)), 2 ^ (n % LimbBits)).q)

FZero == [k |-> "fin", s |-> 1, m |-> <<>>, e |-> 0]
FInf  == [k |-> "inf"]
FNan  == [k |-> "nan"]

\* s * (n + a fraction in (0,1) when sticky) * 2^e, rounded to nearest, ties
\* to even, for a trimmed n; with sticky set n has more than MantBits + 1 bits
RoundLimbs(s, n, e, sticky) ==
    IF n = <<>> THEN FZero
    ELSE IF BitLen(n) <= MantBits
    THEN [k |-> "fin", s |-> s, m |-> ShiftLeft(n, MantBits - BitLen(n)),
          e |-> e - (MantBits - BitLen(n))]
    ELSE LET t     == BitLen(n) - MantBits
             kept  == ShiftRight(n, t)
             guard == Bit(n, t - 1)
             rest  == sticky \/ AnyBelow(n, t - 1)
             up    == guard = 1 /\ (rest \/ Bit(kept, 0) = 1)
             r     == IF up THEN AddLimbs(kept, <<>>, 1) ELSE kept
         IN  IF BitLen(r) > MantBits
             THEN [k |-> "fin", s |-> s, m |-> ShiftRight(r, 1), e |-> e + t + 1]
             ELSE [k |-> "fin", s |-> s, m |-> r, e |-> e + t]

Round(s, limbs, e, sticky) == The({RoundLimbs(s, n, e, sticky) : n \in {limbs}})

\* float(n) for a Python int n; exact below 2^53, which every int of the model is
FromInt(n) ==
    IF n < 0 THEN Round(-1, Limbs(-n), 0, FALSE) ELSE Round(1, Limbs(n), 0, FALSE)

\* x + y
AddFloats(x, y) ==
    IF x.k = "nan" \/ y.k = "nan" THEN FNan
    ELSE IF x.k = "inf" \/ y.k = "inf" THEN FInf
    ELSE IF x.m = <<>> THEN y
    ELSE IF y.m = <<>> THEN x
    ELSE LET e  == IF x.e < y.e THEN x.e ELSE y.e
             a  == ShiftLeft(x.m, x.e - e)
             b  == ShiftLeft(y.m, y.e - e)
         IN  IF x.s = y.s THEN Round(x.s, Trim(AddLimbs(a, b, 0)), e, FALSE)
             ELSE IF LessLimbs(a, b) THEN Round(y.s, Trim(SubLimbs(b, a, 0)), e, FALSE)
             ELSE Round(x.s, Trim(SubLimbs(a, b, 0)), e, FALSE)

FAdd(x, y) == The({AddFloats(a, b) : a \in {x}, b \in {y}})

\* n * y for a Python int n (converted exactly, |n| < 2^20) and a float y
MulIntFloat(n, y) ==
    IF y.k = "nan" THEN FNan
    ELSE IF y.k = "inf" THEN (IF n = 0 THEN FNan ELSE FInf)
    ELSE IF n = 0 \/ y.m = <<>> THEN FZero
    ELSE LET a == IF n < 0 THEN -n ELSE n
             s == IF n < 0 THEN -y.s ELSE y.s
         IN  Round(s, Trim(MulSmall(y.m, a, 0)), y.e, FALSE)

FMulInt(n, y) == The({MulIntFloat(n, b) : b \in {y}})

\* x / d for a float x and the float of a small positive int d
DivFloatInt(x, d) ==
    IF x.k # "fin" THEN x
    ELSE IF x.m = <<>> THEN FZero
    ELSE The({Round(x.s, Trim(qr.q), x.e - 2 * MantBits, qr.r # 0) :
                 qr \in {DivSmall(ShiftLeft(x.m, 2 * MantBits), d)}})

FDivInt(x, d) == The({DivFloatInt(a, d) : a \in {x}})

\* int(x): truncation towards zero, for a finite x
ToInt(x) ==
    IF x.m = <<>> THEN 0
    ELSE IF x.e >= 0 THEN x.s * LimbsToInt(ShiftLeft(x.m, x.e))
    ELSE x.s * LimbsToInt(ShiftRight(x.m, -x.e))

(***************************************************************************)
(* POST /simulate: the arithmetic of simulate_scenario.                    *)
(* A baseline is [runway, monthly_revenue, monthly_cogs, monthly_opex], a  *)
(* payload [hires, marketing_spend_increase, price_increase_percentage,    *)
(* baseline_metrics].  price_increase_percentage is a float: the float of  *)
(* an integer, [k |-> "fin", n |-> 15], or the infinity that a JSON number *)
(* beyond the double range (1e999) parses to, [k |-> "inf"].               *)
(***************************************************************************)
HireAnnualCost   == 75000
MonthsPerYear    == 12
ProfitableRunway == 48

Max(a, b) == IF a >= b THEN a ELSE b

PctFloat(p) == IF p.k = "fin" THEN FromInt(p.n) ELSE FInf

\* base.monthly_revenue * (1 + payload.price_increase_percentage / 100.0)
NewMonthlyRevenueF(base, pct) ==
    FMulInt(base.monthly_revenue, FAdd(FromInt(1), FDivInt(PctFloat(pct), 100)))

\* per_hire_monthly = 75000 / 12.0
PerHireMonthly == FDivInt(FromInt(HireAnnualCost), MonthsPerYear)

\* line 98 with the marketing spend taken off the opex, not added to it
NewMonthlyOpexFLess(base, hires, marketing) ==
    FAdd(FAdd(FromInt(base.monthly_opex), FMulInt(hires, PerHireMonthly)),
         FromInt(-marketing))

\* base.monthly_opex + payload.hires * per_hire_monthly + payload.marketing_spend_increase
NewMonthlyOpexF(base, hires, marketing) ==
    FAdd(FAdd(FromInt(base.monthly_opex), FMulInt(hires, PerHireMonthly)),
         FromInt(marketing))

StartingCash(base) ==
    LET baseline_net_profit ==
            base.monthly_revenue - base.monthly_cogs - base.monthly_opex
        base_net_burn == IF baseline_net_profit < 0 THEN -baseline_net_profit ELSE 0
    IN  IF base_net_burn > 0 THEN base.runway * base_net_burn
        ELSE base.monthly_revenue * MonthsPerYear

\* the guard of line 107 with >= for >
DividesBurnOrZero(net_cash_burn) == net_cash_burn >= 0

\* whether line 107 divides: the guard of starting_cash // net_cash_burn
DividesBurn(net_cash_burn) == net_cash_burn > 0

\* new_runway, or the ZeroDivisionError of a // by 0
NewRunway(starting_cash, new_net_profit) ==
    LET net_cash_burn == IF new_net_profit < 0 THEN -new_net_profit ELSE 0
    IN  IF DividesBurn(net_cash_burn)
        THEN IF net_cash_burn = 0 THEN [exc |-> "ZeroDivisionError", v |-> 0]
             ELSE [exc |-> "none", v |-> Max(0, starting_cash \div net_cash_burn)]
        ELSE [exc |-> "none", v |-> ProfitableRunway]

\* the exception int(x) raises for a float that is not finite
IntError(x) == IF x.k = "inf" THEN "OverflowError" ELSE "ValueError"

NoMetrics ==
    [runway |-> 0, monthly_burn |-> 0, monthly_opex |-> 0, monthly_profit |-> 0,
     monthly_revenue |-> 0, monthly_cogs |-> 0]

\* lines 99-107 and 111-115, from the floats of lines 95 and 98
SimulateFrom(base, revenueF, opexF) ==
    IF revenueF.k # "fin" THEN [exc |-> IntError(revenueF), m |-> NoMetrics]
    ELSE IF opexF.k # "fin" THEN [exc |-> IntError(opexF), m |-> NoMetrics]
    ELSE LET new_monthly_revenue == ToInt(revenueF)
             new_monthly_opex    == ToInt(opexF)
             new_gross_profit    == new_monthly_revenue - base.monthly_cogs
             new_net_profit      == new_gross_profit - new_monthly_opex
             new_runway          == NewRunway(StartingCash(base), new_net_profit)
         IN  IF new_runway.exc # "none" THEN [exc |-> new_runway.exc, m |-> NoMetrics]
             ELSE [exc |-> "none",
                   m |-> [runway          |-> new_runway.v,
                          monthly_burn    |-> new_monthly_opex,
                          monthly_opex    |-> new_monthly_opex,
                          monthly_profit  |-> new_net_profit,
                          monthly_revenue |-> new_monthly_revenue,
                          monthly_cogs    |-> base.monthly_cogs]]

\* lines 94-107 and 111-115: the exception the arithmetic raises ("none" when
\* it raises none) and simulated_metrics
SimulateMetrics(payload) ==
    The({SimulateFrom(payload.baseline_metrics, revenueF, opexF) :
            revenueF \in {NewMonthlyRevenueF(payload.baseline_metrics,
                                             payload.price_increase_percentage)},
            opexF \in {NewMonthlyOpexF(payload.baseline_metrics, payload.hires,
                                       payload.marketing_spend_increase)}})

(***************************************************************************)
(* The usage counter: USAGE_STATS, get_usage_stats, log_flexprice_event.   *)
(***************************************************************************)
StatKeys == {"scenarios_simulated", "reports_exported", "ai_price_calculations"}

EventNames == {"scenario_simulated", "report_exported", "ai_price_calculation"}

\* a dict of no key: the snapshot of a handler that took none
NoStats == [k \in {} |-> 0]

\* the if/elif chain with the second branch adding to the first counter
CounterOfShifted(event_name) ==
    CASE event_name = "scenario_simulated"   -> "scenarios_simulated"
      [] event_name = "report_exported"      -> "scenarios_simulated"
      [] event_name = "ai_price_calculation" -> "ai_price_calculations"

\* the if/elif chain of log_flexprice_event: the counter an event name adds to
CounterOf(event_name) ==
    CASE event_name = "scenario_simulated"   -> "scenarios_simulated"
      [] event_name = "report_exported"      -> "reports_exported"
      [] event_name = "ai_price_calculation" -> "ai_price_calculations"

\* dict.update
Update(d, data) ==
    [k \in DOMAIN d \cup DOMAIN data |-> IF k \in DOMAIN data THEN data[k] ELSE d[k]]

\* get_usage_stats without its try/except: the RequestException escapes
GetUsageStatsUncaught(stats, configured, outcome) ==
    IF configured
    THEN IF outcome.k = "ok"
         THEN [stats |-> Update(stats, outcome.data), ret |-> outcome.data, exc |-> "none"]
         ELSE [stats |-> stats, ret |-> NoStats, exc |-> "RequestException"]
    ELSE [stats |-> stats, ret |-> stats, exc |-> "none"]

\* get_usage_stats: the counters it leaves, the dict it returns and the
\* exception it raises, for the outcome of GET /usage/{customer_id}:
\* [k |-> "ok", data |-> the JSON object of a 2xx answer], or
\* [k |-> "RequestException"] (no connection, a timeout, an error status), or
\* [k |-> "none"] when no request is made
GetUsageStats(stats, configured, outcome) ==
    IF configured
    THEN IF outcome.k = "ok"
         THEN [stats |-> Update(stats, outcome.data), ret |-> outcome.data, exc |-> "none"]
         ELSE [stats |-> stats, ret |-> stats, exc |-> "none"]
    ELSE [stats |-> stats, ret |-> stats, exc |-> "none"]

(***************************************************************************)
(* POST /flexprice/calculate: the model's answer.  A text is a sequence of *)
(* tokens: "ws" (white space), "fence_json" (```json), "fence" (```),      *)
(* "obj" (the text of a JSON object with optimal_price and reasoning),     *)
(* "arr" (the text of a JSON value that is no object), "junk" (anything    *)
(* else).                                                                  *)
(***************************************************************************)
FallbackPrice == 999

\* str.strip
RECURSIVE Strip(_)
Strip(t) ==
    IF t = <<>> THEN t
    ELSE IF Head(t) = "ws" THEN Strip(Tail(t))
    ELSE IF t[Len(t)] = "ws" THEN Strip(SubSeq(t, 1, Len(t) - 1))
    ELSE t

\* str.replace(tok, "")
RECURSIVE Remove(_, _)
Remove(t, tok) ==
    IF t = <<>> THEN t
    ELSE IF Head(t) = tok THEN Remove(Tail(t), tok)
    ELSE <<Head(t)>> \o Remove(Tail(t), tok)

\* response.text.strip().replace("```json", "").replace("```", "").strip()
CleanedResponse(text) == Strip(Remove(Remove(Strip(text), "fence_json"), "fence"))

\* json.loads: "obj" or "arr" for the one JSON value the text holds (white
\* space around it allowed), "JSONDecodeError" for any other text
JsonLoads(text) ==
    LET vals == Remove(text, "ws")
    IN  IF Len(vals) = 1 /\ vals[1] \in {"obj", "arr"} THEN vals[1]
        ELSE "JSONDecodeError"

NoBody == [kind |-> "none"]

\* an except branch that answers a default price
PriceFailureDefaulted(usage_stats) ==
    [status |-> 200,
     body |-> [kind |-> "price", optimal_price |-> FallbackPrice,
               reasoning |-> "default", usage_stats |-> usage_stats]]

\* the except branch: HTTPException(status_code=500)
PriceFailure(usage_stats) == [status |-> 500, body |-> [kind |-> "detail"]]

\* lines 133-146 of calculate_price, for the outcome of generate_content:
\* [k |-> "raises"] or [k |-> "text", text |-> tokens, price |-> the
\* optimal_price of the text's JSON object]
CalculatePrice(gemini, outcome, usage_stats) ==
    IF gemini
    THEN IF outcome.k = "raises" THEN PriceFailure(usage_stats)
         ELSE LET result_json == JsonLoads(CleanedResponse(outcome.text))
              IN  IF result_json = "obj"
                  THEN [status |-> 200,
                        body |-> [kind |-> "price", optimal_price |-> outcome.price,
                                  reasoning |-> "x", usage_stats |-> usage_stats]]
                  \* a text that is no JSON, or a JSON value that takes no
                  \* "usage_stats" item (TypeError): except Exception
                  ELSE PriceFailure(usage_stats)
    ELSE [status |-> 200,
          body |-> [kind |-> "price", optimal_price |-> FallbackPrice,
                    reasoning |-> "GEMINI_API_KEY not configured.",
                    usage_stats |-> usage_stats]]

(***************************************************************************)
(* build_forecast_df (src/app.py).  metrics is a dict that may lack        *)
(* "runway".                                                               *)
(***************************************************************************)
DefaultHorizon == 36

\* the projection without its max(0, .)
Floor0Off(x) == x

\* max(0, .)
Floor0(x) == Max(0, x)

\* the horizon without its clamp
ClampHorizonOff(runway_duration) == runway_duration

\* if runway_duration <= 0: runway_duration = 1
ClampHorizon(runway_duration) == IF runway_duration <= 0 THEN 1 ELSE runway_duration

\* the rows (Month, Cash Balance) of the data frame, or the KeyError of
\* metrics["runway"] on a dict without the key
BuildForecastDf(metrics) ==
    LET net_profit ==
            metrics["monthly_revenue"] - metrics["monthly_cogs"] - metrics["monthly_opex"]
        base_net_burn == IF net_profit < 0 THEN -net_profit ELSE 0
    IN  IF base_net_burn > 0 /\ "runway" \notin DOMAIN metrics
        THEN [exc |-> "KeyError", rows |-> <<>>]
        ELSE LET starting_cash ==
                     IF base_net_burn > 0 THEN metrics["runway"] * base_net_burn
                     ELSE metrics["monthly_revenue"] * MonthsPerYear
                 runway_duration ==
                     ClampHorizon(IF "runway" \in DOMAIN metrics THEN metrics["runway"]
                                  ELSE DefaultHorizon)
             IN  [exc  |-> "none",
                  rows |-> [i \in 1..runway_duration |->
                              [month |-> i,
                               cash_balance |->
                                   Floor0(starting_cash + net_profit * (i - 1))]]]

(***************************************************************************)
(* The process.  Every handler is a coroutine (async def) without an await *)
(* in it, so the one event-loop thread runs a handler from its first line  *)
(* to its return before it starts another.  A handler's position is kept   *)
(* statement by statement all the same, so that the atomicity is a         *)
(* property of the loop (Preemptible) and not of the model's step size.    *)
(***************************************************************************)
NumTasks    == 2
MaxRequests == 3
MaxHires    == 2
ExtCount    == 2
MaxRunway   == 4
MaxSession  == 2

Tasks == 1..NumTasks

Endpoints ==
    {"initial_data", "simulate", "log_report_export", "data_refresh", "calculate_price"}

InitialBaseline ==
    [runway |-> 18, monthly_revenue |-> 220000, monthly_cogs |-> 40000,
     monthly_opex |-> 150000]

RefreshedBaseline ==
    [runway |-> 15, monthly_revenue |-> 210000, monthly_cogs |-> 45000,
     monthly_opex |-> 160000]

Fin(n) == [k |-> "fin", n |-> n]

Payload(base, h, m, p) ==
    [hires |-> h, marketing_spend_increase |-> m, price_increase_percentage |-> p,
     baseline_metrics |-> base]

NoPayload == [none |-> TRUE]

\* the request bodies of POST /simulate under Spec
SimPayloads ==
    {Payload(InitialBaseline, 0, 0, Fin(0)),
     Payload(InitialBaseline, MaxHires, 10000, Fin(15)),
     Payload(RefreshedBaseline, 0, 30000, [k |-> "inf"])}

\* the baselines, and the request bodies of POST /simulate, under SpecSim
SimBaselines ==
    {InitialBaseline, RefreshedBaseline,
     [runway |-> 6, monthly_revenue |-> 100000, monthly_cogs |-> 40000,
      monthly_opex |-> 90000],
     [runway |-> 0, monthly_revenue |-> 0, monthly_cogs |-> 0, monthly_opex |-> 0],
     [runway |-> -3, monthly_revenue |-> 100, monthly_cogs |-> 50, monthly_opex |-> 100]}

SimSpace ==
    {Payload(b, h, m, p) :
        b \in SimBaselines, h \in 0..MaxHires, m \in {-5000, 0, 30001, 100000},
        p \in {Fin(-10), Fin(0), Fin(15)}}

\* the JSON objects GET /usage/{customer_id} answers with
ExtData ==
    {[k \in StatKeys |-> 0], [k \in StatKeys |-> ExtCount],
     [k \in {"scenarios_simulated"} |-> ExtCount]}

GetOutcomes(configured) ==
    IF configured
    THEN {[k |-> "RequestException"]} \cup {[k |-> "ok", data |-> d] : d \in ExtData}
    ELSE {[k |-> "none"]}

PostOutcomes(configured) == IF configured THEN {"ok", "RequestException"} ELSE {"none"}

ModelTexts ==
    {<<"fence_json", "ws", "obj", "ws", "fence">>, <<"obj">>, <<"ws", "obj", "ws">>,
     <<"fence_json", "ws", "junk", "ws", "fence">>, <<"junk", "ws", "obj">>,
     <<"arr">>, <<>>}

ModelOutcomes(gemini) ==
    IF gemini
    THEN {[k |-> "raises"]} \cup {[k |-> "text", text |-> t, price |-> 49] : t \in ModelTexts}
    ELSE {[k |-> "none"]}

\* the metrics build_forecast_df is applied to under SpecForecast
ForecastMetrics ==
    {[monthly_revenue |-> r, monthly_cogs |-> c, monthly_opex |-> o] :
        r \in {-100, 0, 100, 300}, c \in {0, 50}, o \in {0, 100, 400}}
    \cup {[runway |-> n, monthly_revenue |-> r, monthly_cogs |-> c, monthly_opex |-> o] :
        n \in -1..MaxRunway, r \in {-100, 0, 100, 300}, c \in {0, 50}, o \in {0, 100, 400}}

VARIABLES
    FLEXPRICE_API_KEY,  \* whether os.getenv("FLEXPRICE_API_KEY") is set
    GEMINI_API_KEY,     \* whether os.getenv("GEMINI_API_KEY") is set
    USAGE_STATS,        \* the module's dict of counters
    task,               \* task[t]: the handler of slot t and its position
    resp,               \* resp[t]: the response to the slot's last request
    running,            \* the task the event loop is running, 0 for none
    logged,             \* logged[e]: the calls of log_flexprice_event(e) so far
    started,            \* the requests accepted so far
    forecast            \* the dashboard's last build_forecast_df call

vars ==
    <<FLEXPRICE_API_KEY, GEMINI_API_KEY, USAGE_STATS, task, resp, running, logged,
      started, forecast>>

NoOut == [status |-> 0, body |-> NoBody]

Idle ==
    [ep |-> "none", pc |-> "idle", payload |-> NoPayload, tmp |-> 0, post |-> "none",
     get |-> "none", snapshot |-> NoStats, before |-> NoStats, out |-> NoOut,
     model |-> [k |-> "none"]]

NoResp == [ep |-> "none"]

NoForecast == [called |-> FALSE]

EventOf(ep) ==
    CASE ep = "simulate"          -> "scenario_simulated"
      [] ep = "log_report_export" -> "report_exported"
      [] ep = "calculate_price"   -> "ai_price_calculation"

\* the first statement of a handler
FirstPc(ep) ==
    CASE ep = "initial_data"      -> "fetch"
      [] ep = "simulate"          -> "compute"
      [] ep = "log_report_export" -> "load"
      [] ep = "data_refresh"      -> "respond"
      [] ep = "calculate_price"   -> "load"

\* a handler run on a worker thread (def instead of async def) can be
\* preempted between any two statements
PreemptibleThreaded(pc) == pc # "idle"

\* whether the loop may run another handler while one is at pc: at no
\* statement, as no handler awaits
Preemptible(pc) == FALSE

CanRun(t) == running = 0 \/ running = t

Hold(t, pc) == IF Preemptible(pc) THEN 0 ELSE t

Init ==
    /\ FLEXPRICE_API_KEY \in BOOLEAN
    /\ GEMINI_API_KEY \in BOOLEAN
    /\ USAGE_STATS = [k \in StatKeys |-> 0]
    /\ task = [t \in Tasks |-> Idle]
    /\ resp = [t \in Tasks |-> NoResp]
    /\ running = 0
    /\ logged = [e \in EventNames |-> 0]
    /\ started = 0
    /\ forecast = NoForecast

\* a request reaches the server: its handler is scheduled
Accept(t, ep, payload) ==
    /\ task[t].pc = "idle"
    /\ started < MaxRequests
    /\ task' = [task EXCEPT ![t] = [Idle EXCEPT !.ep = ep, !.pc = "start",
                                                !.payload = payload]]
    /\ resp' = [resp EXCEPT ![t] = NoResp]
    /\ started' = started + 1
    /\ UNCHANGED <<FLEXPRICE_API_KEY, GEMINI_API_KEY, USAGE_STATS, running, logged,
                   forecast>>

Request(t, ep) == ep # "simulate" /\ Accept(t, ep, NoPayload)

RequestSimulate(t, payload) == Accept(t, "simulate", payload)

\* the loop starts the handler
Begin(t) ==
    /\ task[t].pc = "start"
    /\ CanRun(t)
    /\ task' = [task EXCEPT ![t].pc = FirstPc(task[t].ep), ![t].before = USAGE_STATS]
    /\ running' = Hold(t, FirstPc(task[t].ep))
    /\ UNCHANGED <<FLEXPRICE_API_KEY, GEMINI_API_KEY, USAGE_STATS, resp, logged,
                   started, forecast>>

\* simulate_scenario, lines 94-107: an exception leaves the handler (500)
Compute(t) ==
    /\ task[t].pc = "compute"
    /\ CanRun(t)
    /\ LET r == SimulateMetrics(task[t].payload)
       IN  IF r.exc # "none"
           THEN /\ task' = [task EXCEPT ![t].pc = "respond",
                                        ![t].out = [status |-> 500,
                                                    body |-> [kind |-> r.exc]]]
                /\ running' = Hold(t, "respond")
           ELSE /\ task' = [task EXCEPT ![t].pc = "load",
                                        ![t].out = [status |-> 200,
                                                    body |-> [kind |-> "simulated",
                                                              simulated_metrics |-> r.m]]]
                /\ running' = Hold(t, "load")
    /\ UNCHANGED <<FLEXPRICE_API_KEY, GEMINI_API_KEY, USAGE_STATS, resp, logged,
                   started, forecast>>

\* log_flexprice_event, USAGE_STATS[key] += 1: the read
Load(t) ==
    /\ task[t].pc = "load"
    /\ CanRun(t)
    /\ task' = [task EXCEPT ![t].pc = "store",
                            ![t].tmp = USAGE_STATS[CounterOf(EventOf(task[t].ep))]]
    /\ logged' = [logged EXCEPT ![EventOf(task[t].ep)] = @ + 1]
    /\ running' = Hold(t, "store")
    /\ UNCHANGED <<FLEXPRICE_API_KEY, GEMINI_API_KEY, USAGE_STATS, resp, started,
                   forecast>>

\* log_flexprice_event, USAGE_STATS[key] += 1: the write
Store(t) ==
    /\ task[t].pc = "store"
    /\ CanRun(t)
    /\ USAGE_STATS' =
           [USAGE_STATS EXCEPT ![CounterOf(EventOf(task[t].ep))] = task[t].tmp + 1]
    /\ task' = [task EXCEPT ![t].pc = "post"]
    /\ running' = Hold(t, "post")
    /\ UNCHANGED <<FLEXPRICE_API_KEY, GEMINI_API_KEY, resp, logged, started, forecast>>

\* log_flexprice_event, lines 74-79: POST /meter; a RequestException is
\* printed, an error status is not looked at
Post(t) ==
    /\ task[t].pc = "post"
    /\ CanRun(t)
    /\ \E o \in PostOutcomes(FLEXPRICE_API_KEY) :
           task' = [task EXCEPT ![t].pc = "fetch", ![t].post = o]
    /\ running' = Hold(t, "fetch")
    /\ UNCHANGED <<FLEXPRICE_API_KEY, GEMINI_API_KEY, USAGE_STATS, resp, logged,
                   started, forecast>>

\* get_usage_stats, called by get_initial_data and by log_flexprice_event
Fetch(t) ==
    /\ task[t].pc = "fetch"
    /\ CanRun(t)
    /\ \E o \in GetOutcomes(FLEXPRICE_API_KEY) :
           LET r    == GetUsageStats(USAGE_STATS, FLEXPRICE_API_KEY, o)
               next == IF r.exc # "none" THEN "respond"
                       ELSE IF task[t].ep = "calculate_price" THEN "model"
                       ELSE "respond"
           IN  /\ USAGE_STATS' = r.stats
               /\ task' = [task EXCEPT
                              ![t].pc = next,
                              ![t].get = o.k,
                              ![t].snapshot = r.ret,
                              ![t].out = IF r.exc # "none"
                                         THEN [status |-> 500, body |-> [kind |-> r.exc]]
                                         ELSE @]
               /\ running' = Hold(t, next)
    /\ UNCHANGED <<FLEXPRICE_API_KEY, GEMINI_API_KEY, resp, logged, started, forecast>>

\* calculate_price, lines 133-146
Model(t) ==
    /\ task[t].pc = "model"
    /\ CanRun(t)
    /\ \E o \in ModelOutcomes(GEMINI_API_KEY) :
           task' = [task EXCEPT ![t].pc = "respond", ![t].model = o,
                                ![t].out = CalculatePrice(GEMINI_API_KEY, o,
                                                          task[t].snapshot)]
    /\ running' = Hold(t, "respond")
    /\ UNCHANGED <<FLEXPRICE_API_KEY, GEMINI_API_KEY, USAGE_STATS, resp, logged,
                   started, forecast>>

\* the body a handler returns
Body(tk) ==
    IF tk.out.status = 500 THEN tk.out.body
    ELSE CASE tk.ep = "initial_data" ->
                [kind |-> "initial", baseline_metrics |-> InitialBaseline,
                 usage_stats |-> tk.snapshot]
           [] tk.ep = "simulate" ->
                [kind |-> "simulated",
                 simulated_metrics |-> tk.out.body.simulated_metrics,
                 usage_stats |-> tk.snapshot]
           [] tk.ep = "log_report_export" ->
                [kind |-> "stats", usage_stats |-> tk.snapshot]
           [] tk.ep = "data_refresh" ->
                [kind |-> "refresh", baseline_metrics |-> RefreshedBaseline]
           [] tk.ep = "calculate_price" -> tk.out.body

\* the handler returns (or its exception reaches the framework): the
\* response, with what the handler met on its way
Respond(t) ==
    /\ task[t].pc = "respond"
    /\ CanRun(t)
    /\ resp' = [resp EXCEPT ![t] =
                   [ep       |-> task[t].ep,
                    status   |-> IF task[t].out.status = 500 THEN 500 ELSE 200,
                    body     |-> Body(task[t]),
                    payload  |-> task[t].payload,
                    post     |-> task[t].post,
                    get      |-> task[t].get,
                    snapshot |-> task[t].snapshot,
                    model    |-> task[t].model,
                    before   |-> task[t].before,
                    after    |-> USAGE_STATS]]
    /\ task' = [task EXCEPT ![t] = Idle]
    /\ running' = 0
    /\ UNCHANGED <<FLEXPRICE_API_KEY, GEMINI_API_KEY, USAGE_STATS, logged, started,
                   forecast>>

Step(t) ==
    \/ Begin(t)
    \/ Compute(t)
    \/ Load(t)
    \/ Store(t)
    \/ Post(t)
    \/ Fetch(t)
    \/ Model(t)
    \/ Respond(t)

Next ==
    \/ \E t \in Tasks, ep \in Endpoints : Request(t, ep)
    \/ \E t \in Tasks, p \in SimPayloads : RequestSimulate(t, p)
    \/ \E t \in Tasks : Step(t)

Spec == Init /\ [][Next]_vars

(***************************************************************************)
(* SpecSim: one dashboard session, without credentials, that simulates     *)
(* MaxSession scenarios of SimSpace on one baseline.                       *)
(***************************************************************************)
InitSim == Init /\ ~FLEXPRICE_API_KEY /\ ~GEMINI_API_KEY

SessionSimulate(t, payload) ==
    /\ started < MaxSession
    /\ \A u \in Tasks :
          /\ task[u].ep = "simulate"
                => task[u].payload.baseline_metrics = payload.baseline_metrics
          /\ resp[u].ep = "simulate"
                => resp[u].payload.baseline_metrics = payload.baseline_metrics
    /\ Accept(t, "simulate", payload)

NextSim ==
    \/ \E t \in Tasks, p \in SimSpace : SessionSimulate(t, p)
    \/ \E t \in Tasks : Begin(t) \/ Compute(t) \/ Load(t) \/ Store(t) \/ Post(t)
                        \/ Fetch(t) \/ Respond(t)

SpecSim == InitSim /\ [][NextSim]_vars

(***************************************************************************)
(* SpecForecast: the dashboard applies build_forecast_df to metrics.       *)
(***************************************************************************)
Project(metrics) ==
    /\ forecast' = [called |-> TRUE, metrics |-> metrics, df |-> BuildForecastDf(metrics)]
    /\ UNCHANGED <<FLEXPRICE_API_KEY, GEMINI_API_KEY, USAGE_STATS, task, resp, running,
                   logged, started>>

NextForecast == \E m \in ForecastMetrics : Project(m)

SpecForecast == InitSim /\ [][NextForecast]_vars
(***************************************************************************)
(* The claims.                                                             *)
(***************************************************************************)
Metered == {"simulate", "log_report_export", "calculate_price"}

\* the counters a handler of endpoint ep leaves, from the counters it found
Counted(before, ep) ==
    CASE ep = "simulate" ->
            [before EXCEPT !["scenarios_simulated"] = @ + 1]
      [] ep = "log_report_export" ->
            [before EXCEPT !["reports_exported"] = @ + 1]
      [] ep = "calculate_price" ->
            [before EXCEPT !["ai_price_calculations"] = @ + 1]
      [] OTHER -> before

\* the handlers that have read a counter and not yet written it back
Writing(ep) == Cardinality({t \in Tasks : task[t].pc = "store" /\ task[t].ep = ep})

\* C1: without a metering service, every log_flexprice_event call that has
\* got past its increment is in its counter, however the handlers overlap:
\* each counter is the number of calls made less the calls still between the
\* read and the write of their +=, so N finished calls add exactly N.
C1_NoLostIncrement ==
    ~FLEXPRICE_API_KEY =>
        /\ USAGE_STATS["scenarios_simulated"]
              = logged["scenario_simulated"] - Writing("simulate")
        /\ USAGE_STATS["reports_exported"]
              = logged["report_exported"] - Writing("log_report_export")
        /\ USAGE_STATS["ai_price_calculations"]
              = logged["ai_price_calculation"] - Writing("calculate_price")

\* two exports in flight at once, one past its increment and one waiting for
\* the loop, with two exports counted
C1_Witness ==
    /\ ~FLEXPRICE_API_KEY
    /\ \E t, u \in Tasks :
          /\ task[t].ep = "log_report_export" /\ task[t].pc = "post"
          /\ task[u].ep = "log_report_export" /\ task[u].pc = "start"
    /\ USAGE_STATS["reports_exported"] = 2
    /\ logged["report_exported"] = 2

\* C2: without a metering service, between handlers the three counters are
\* exactly the numbers of log_flexprice_event calls made so far with each
\* event name: a call adds one to its own counter only, and get_usage_stats
\* changes none.
C2_CountersAreCallCounts ==
    (~FLEXPRICE_API_KEY /\ running = 0) =>
        USAGE_STATS = [k \in StatKeys |->
                          CASE k = "scenarios_simulated"   -> logged["scenario_simulated"]
                            [] k = "reports_exported"      -> logged["report_exported"]
                            [] k = "ai_price_calculations" -> logged["ai_price_calculation"]]

\* an export, then GET /initial-data reading it, then a simulation
C2_Witness ==
    /\ ~FLEXPRICE_API_KEY
    /\ running = 0
    /\ \E t \in Tasks :
          /\ resp[t].ep = "initial_data"
          /\ resp[t].body.usage_stats["reports_exported"] = 1
          /\ resp[t].body.usage_stats["scenarios_simulated"] = 0
    /\ USAGE_STATS["scenarios_simulated"] = 1
    /\ USAGE_STATS["reports_exported"] = 1

\* what C3 says of a handler's metering calls: nothing raised, the local
\* counters hold what the handler found plus its own increment, and the
\* snapshot returned is those counters
KeptLocal(r) ==
    /\ ~(r.status = 500 /\ r.body.kind = "RequestException")
    /\ r.after = Counted(r.before, r.ep)
    /\ r.snapshot = r.after

CallsMetering(r) ==
    /\ r.ep \in Metered \cup {"initial_data"}
    /\ r.ep = "simulate" => r.status = 200

\* C3 as claimed: with the metering service configured, a failed POST /meter
\* or a failed GET /usage leaves the local counters the source of truth.
C3_AnyFailureKeepsLocal ==
    FLEXPRICE_API_KEY =>
        \A t \in Tasks :
            (/\ CallsMetering(resp[t])
             /\ resp[t].post = "RequestException" \/ resp[t].get = "RequestException")
                => KeptLocal(resp[t])

\* C3 as amended: with the metering service configured, a failed GET /usage
\* (whether the POST /meter before it failed or not) raises nothing, leaves
\* the local counters as they were (the increment included) and returns
\* them; a failed POST /meter alone raises nothing.
C3_FetchFailureKeepsLocal ==
    FLEXPRICE_API_KEY =>
        \A t \in Tasks :
            CallsMetering(resp[t]) =>
                /\ resp[t].get = "RequestException" => KeptLocal(resp[t])
                /\ resp[t].post = "RequestException"
                      => ~(resp[t].status = 500 /\ resp[t].body.kind = "RequestException")

\* an export whose POST and GET both failed, answered with the local count
C3_Witness ==
    /\ FLEXPRICE_API_KEY
    /\ \E t \in Tasks :
          /\ resp[t].ep = "log_report_export"
          /\ resp[t].post = "RequestException"
          /\ resp[t].get = "RequestException"
          /\ resp[t].status = 200
          /\ resp[t].body.usage_stats["reports_exported"] >= 1

NonNegative(base) ==
    /\ base.runway >= 0
    /\ base.monthly_revenue >= 0
    /\ base.monthly_cogs >= 0
    /\ base.monthly_opex >= 0

NetProfit(base) == base.monthly_revenue - base.monthly_cogs - base.monthly_opex

Simulated(r) == r.ep = "simulate" /\ r.status = 200

\* C4: every simulation answers runway 48 when its net profit is >= 0, and
\* otherwise max(0, floor(starting_cash / -net profit)) with starting_cash
\* from the baseline alone; no simulation ends in a division by zero.
C4_Runway ==
    \A t \in Tasks :
        resp[t].ep = "simulate" =>
            /\ ~(resp[t].status = 500 /\ resp[t].body.kind = "ZeroDivisionError")
            /\ resp[t].status = 200 =>
                  LET base   == resp[t].payload.baseline_metrics
                      sim    == resp[t].body.simulated_metrics
                      cash   == IF NetProfit(base) < 0
                                THEN base.runway * (-NetProfit(base))
                                ELSE base.monthly_revenue * 12
                  IN  sim.runway = IF sim.monthly_profit >= 0 THEN 48
                                   ELSE Max(0, cash \div (-sim.monthly_profit))

\* a profitable baseline simulated into a loss: the runway is the baseline's
\* twelve months of revenue over the simulated burn
C4_Witness ==
    \E t \in Tasks :
        /\ Simulated(resp[t])
        /\ NetProfit(resp[t].payload.baseline_metrics) >= 0
        /\ resp[t].body.simulated_metrics.monthly_profit < 0
        /\ resp[t].body.simulated_metrics.runway > 0

\* C5: for non-negative inputs the simulated revenue is
\* floor(revenue * (1 + pct/100)), opex and burn are
\* floor(opex + hires * 75000/12 + marketing), cogs is the baseline's and
\* profit is revenue - cogs - opex.
C5_SimulatedMetrics ==
    \A t \in Tasks :
        (/\ resp[t].ep = "simulate"
         /\ NonNegative(resp[t].payload.baseline_metrics)
         /\ resp[t].payload.hires >= 0
         /\ resp[t].payload.marketing_spend_increase >= 0
         /\ resp[t].payload.price_increase_percentage.k = "fin"
         /\ resp[t].payload.price_increase_percentage.n >= 0)
            => /\ resp[t].status = 200
               /\ LET p    == resp[t].payload
                      base == p.baseline_metrics
                      sim  == resp[t].body.simulated_metrics
                  IN  /\ sim.monthly_revenue
                            = (base.monthly_revenue
                                 * (100 + p.price_increase_percentage.n)) \div 100
                      /\ sim.monthly_opex
                            = base.monthly_opex + (p.hires * 75000) \div 12
                                + p.marketing_spend_increase
                      /\ sim.monthly_burn = sim.monthly_opex
                      /\ sim.monthly_cogs = base.monthly_cogs
                      /\ sim.monthly_profit
                            = sim.monthly_revenue - sim.monthly_cogs - sim.monthly_opex

\* two simulations on one non-negative baseline at one price increase, the
\* second with at least the hires and the marketing spend of the first
CostRaised(r1, r2) ==
    /\ Simulated(r1)
    /\ Simulated(r2)
    /\ r1.payload.baseline_metrics = r2.payload.baseline_metrics
    /\ NonNegative(r1.payload.baseline_metrics)
    /\ r1.payload.price_increase_percentage = r2.payload.price_increase_percentage
    /\ r1.payload.hires <= r2.payload.hires
    /\ r1.payload.marketing_spend_increase <= r2.payload.marketing_spend_increase

\* C10 as claimed: raising hires or marketing spend never raises the runway.
C10_RunwayMonotone ==
    \A t, u \in Tasks :
        CostRaised(resp[t], resp[u])
            => resp[u].body.simulated_metrics.runway
                  <= resp[t].body.simulated_metrics.runway

\* C10 as amended: raising hires or marketing spend never raises the runway
\* when the cheaper scenario already runs at a loss or the dearer one still
\* does not (the two are on one side of break-even).
C10_RunwayMonotoneOneSide ==
    \A t, u \in Tasks :
        (/\ CostRaised(resp[t], resp[u])
         /\ \/ resp[t].body.simulated_metrics.monthly_profit < 0
            \/ resp[u].body.simulated_metrics.monthly_profit >= 0)
            => resp[u].body.simulated_metrics.runway
                  <= resp[t].body.simulated_metrics.runway

\* two loss-making scenarios, the dearer one with the strictly shorter runway
C10_Witness ==
    \E t, u \in Tasks :
        /\ CostRaised(resp[t], resp[u])
        /\ resp[t].body.simulated_metrics.monthly_profit < 0
        /\ resp[t].payload.marketing_spend_increase
              < resp[u].payload.marketing_spend_increase
        /\ resp[u].body.simulated_metrics.runway
              < resp[t].body.simulated_metrics.runway

Cash(i) == forecast.df.rows[i].cash_balance

Projected == forecast.called /\ forecast.df.exc = "none"

\* C6: no cash balance of a forecast is negative; under a net loss the
\* balances never rise from one month to the next and stay 0 once 0.
C6_CashBalance ==
    Projected =>
        LET n == Len(forecast.df.rows)
            m == forecast.metrics
        IN  /\ \A i \in 1..n : Cash(i) >= 0
            /\ m["monthly_revenue"] - m["monthly_cogs"] - m["monthly_opex"] < 0
                  => \A i, j \in 1..n :
                        i < j => /\ Cash(j) <= Cash(i)
                                 /\ Cash(i) = 0 => Cash(j) = 0

\* a forecast under a net loss, several months long and falling
C6_Witness ==
    /\ Projected
    /\ forecast.metrics["monthly_revenue"] - forecast.metrics["monthly_cogs"]
          - forecast.metrics["monthly_opex"] < 0
    /\ Len(forecast.df.rows) >= 3
    /\ Cash(3) < Cash(2)
    /\ Cash(2) < Cash(1)

\* C7: with a runway in the metrics the forecast has max(1, runway) rows,
\* numbered 1, 2, ... in order.
C7_Horizon ==
    (forecast.called /\ "runway" \in DOMAIN forecast.metrics) =>
        /\ forecast.df.exc = "none"
        /\ Len(forecast.df.rows) = Max(1, forecast.metrics["runway"])
        /\ \A i \in 1..Len(forecast.df.rows) : forecast.df.rows[i].month = i

\* a runway of 0: one row, month 1
C7_Witness ==
    /\ forecast.called
    /\ "runway" \in DOMAIN forecast.metrics
    /\ forecast.metrics["runway"] = 0
    /\ Len(forecast.df.rows) = 1
    /\ forecast.df.rows[1].month = 1

\* the text holds one JSON value once fences and white space are set aside
JsonAfterStripping(text) ==
    SelectSeq(text, LAMBDA tok : tok \notin {"ws", "fence", "fence_json"})
        \in {<<"obj">>, <<"arr">>}

IsFallback(r) ==
    /\ r.status = 200
    /\ r.body.optimal_price = 999
    /\ r.body.reasoning = "GEMINI_API_KEY not configured."

\* C8: with credentials, a model call that fails or a text that is no JSON
\* after the fences are stripped ends in a 500 without a price; the fallback
\* price 999 is answered only without credentials, and then with the
\* snapshot of the counters.
C8_NoSilentDefault ==
    \A t \in Tasks :
        resp[t].ep = "calculate_price" =>
            /\ (/\ GEMINI_API_KEY
                /\ \/ resp[t].model.k = "raises"
                   \/ resp[t].model.k = "text" /\ ~JsonAfterStripping(resp[t].model.text))
                  => resp[t].status = 500 /\ resp[t].body.kind # "price"
            /\ IsFallback(resp[t]) => ~GEMINI_API_KEY
            /\ (~GEMINI_API_KEY /\ resp[t].status = 200)
                  => IsFallback(resp[t]) /\ resp[t].body.usage_stats = resp[t].snapshot

\* a fenced text that is no JSON inside, answered with a 500
C8_Witness ==
    /\ GEMINI_API_KEY
    /\ \E t \in Tasks :
          /\ resp[t].ep = "calculate_price"
          /\ resp[t].model.k = "text"
          /\ resp[t].model.text = <<"fence_json", "ws", "junk", "ws", "fence">>
          /\ resp[t].status = 500

\* C9: without a metering service, every POST /simulate, /log-report-export
\* and /flexprice/calculate adds one to its own counter and to no other, a
\* successful one answers with the counters after the increment, a pricing
\* call that ends in a 500 keeps its increment, and GET /initial-data and
\* POST /data-refresh change no counter.
C9_EveryCallCounted ==
    ~FLEXPRICE_API_KEY =>
        \A t \in Tasks :
            resp[t].ep # "none" =>
                /\ resp[t].after = Counted(resp[t].before, resp[t].ep)
                /\ (resp[t].ep \in Metered /\ resp[t].status = 200)
                      => resp[t].body.usage_stats = resp[t].after
====
